---- MODULE Spec2Model ----
(***************************************************************************)
(* A model of generalrelativity.py: sparse (p,q)-tensors over a basis, the *)
(* multi-index utilities, component access, equality, addition,            *)
(* densification, the matrix adapter and index contraction.                *)
(*                                                                         *)
(* Python objects are modelled by reference: `dicts` is the heap of dict   *)
(* objects (component maps) and `tensors` the Tensor objects built so far, *)
(* each holding the heap address of its dict_of_values.  `last` records    *)
(* the most recent call: its arguments and what it returned or raised.     *)
(***************************************************************************)
EXTENDS Integers, Sequences, FiniteSets, TLC

VARIABLES dicts, tensors, last

vars == <<dicts, tensors, last>>

(***************************************************************************)
(* Bounds of the model.                                                    *)
(***************************************************************************)
MaxDim == 2
MaxRank == 2
MaxEntries == 1
MaxTensors == 3

(***************************************************************************)
(* Python values that occur as index arguments: None, tuples of ints and   *)
(* bare ints.                                                              *)
(***************************************************************************)
None == [tag |-> "None", items |-> <<>>]

Tup(s) == [tag |-> "tuple", items |-> s]

PyInt(n) == [tag |-> "int", items |-> <<n>>]

isinstance_int(v) == v.tag = "int"

\* len(v): defined on tuples; len(None) and len(5) raise TypeError.
len_raises(v) == v.tag # "tuple"

\* t[:k] for a tuple t and k >= 0 (a slice end beyond the tuple is clamped).
SliceTo(s, k) == SubSeq(s, 1, IF k < Len(s) THEN k ELSE Len(s))

\* t[k:] for a tuple t and k >= 0.
SliceFrom(s, k) == SubSeq(s, k + 1, Len(s))

(***************************************************************************)
(* get_all_multiindices(p, n): [None] for p = 0, otherwise the list of all *)
(* length-p tuples over range(n), last coordinate fastest.                 *)
(***************************************************************************)
get_all_multiindices(p, n) ==
    IF p = 0 THEN <<None>>
    ELSE [k \in 1..(n ^ p) |->
            Tup([d \in 1..p |-> ((k - 1) \div (n ^ (p - d))) % n])]

(***************************************************************************)
(* is_multiindex(multiindex, n, c_dimension) for None and tuples.          *)
(***************************************************************************)
is_multiindex(multiindex, n, c_dimension) ==
    IF multiindex = None THEN c_dimension = 0
    ELSE IF Len(multiindex.items) # c_dimension THEN FALSE
    ELSE \A k \in 1..Len(multiindex.items) :
            ~(multiindex.items[k] < 0 \/ multiindex.items[k] >= n)

(***************************************************************************)
(* Outcome of a call: the value returned, or the exception raised.         *)
(***************************************************************************)
NoExc == "none"

ValidationError == "ValueError: multiindex inconsistent with dimension"

MismatchError == "ValueError: same type and basis"

RankError == "ValueError: dimension less than one"

ContravariantSlotError == "ValueError: contravariant slot"

CovariantSlotError == "ValueError: covariant slot"

KeyError == "KeyError"

TypeError == "TypeError"

Return(v) == [exc |-> NoExc, val |-> v]

Raise(e) == [exc |-> e, val |-> 0]

(***************************************************************************)
(* class Tensor.  _type is the pair the caller passes; _type[1] and        *)
(* _type[2] here are Python's _type[0] and _type[1].                       *)
(***************************************************************************)
\* The attribute assignments of __init__; dict_of_values is a heap address.
Tensor_fields(basis, _type, ref) ==
    [basis |-> basis,
     covariant_dim |-> _type[1],
     contravariant_dim |-> _type[2],
     type |-> _type,
     dict_of_values |-> ref]

\* The validation loop of __init__ over the keys of the dict d: the
\* exception it raises, or NoExc.
Tensor_init_check(basis, _type, d) ==
    LET self == Tensor_fields(basis, _type, 0)
        bad(key) ==
            \/ ~is_multiindex(key[1], Len(self.basis), self.contravariant_dim)
            \/ ~is_multiindex(key[2], Len(self.basis), self.covariant_dim)
    IN  IF \E key \in DOMAIN d : bad(key) THEN ValidationError ELSE NoExc

\* `key in d` followed by d[key], or 0: the lookup every branch of
\* __getitem__ ends in.
dict_get_or_zero(d, a, b) ==
    IF <<a, b>> \in DOMAIN d THEN d[<<a, b>>] ELSE 0

\* __getitem__(self, pair) with pair = (a, b), reading the dict d of self.
Tensor_getitem(self, d, a, b) ==
    LET n == Len(self.basis)
        tail ==
            IF len_raises(a) /\ a # None THEN Raise(TypeError)
            ELSE IF is_multiindex(a, n, self.contravariant_dim)
                 THEN IF isinstance_int(b)
                      THEN Return(dict_get_or_zero(d, a, Tup(b.items)))
                      ELSE IF is_multiindex(b, n, self.covariant_dim)
                           THEN Return(dict_get_or_zero(d, a, b))
                           ELSE Raise(KeyError)
                 ELSE Raise(KeyError)
    IN  IF isinstance_int(a)
        THEN IF isinstance_int(b)
             THEN IF /\ is_multiindex(Tup(a.items), n, self.contravariant_dim)
                     /\ is_multiindex(Tup(b.items), n, self.covariant_dim)
                  THEN Return(dict_get_or_zero(d, Tup(a.items), Tup(b.items)))
                  ELSE Raise(KeyError)
             ELSE IF is_multiindex(b, n, self.covariant_dim)
                  THEN Return(dict_get_or_zero(d, Tup(a.items), b))
                  ELSE tail
        ELSE tail

\* get_all_values without the zero fill: only the entries held.
Tensor_get_all_values_sparse(self, d) == d

\* get_all_values(self), reading the dict d of self.
Tensor_get_all_values(self, d) ==
    LET dim == Len(self.basis)
        covariant_multiindices == get_all_multiindices(self.covariant_dim, dim)
        contravariant_multiindices ==
            get_all_multiindices(self.contravariant_dim, dim)
        keys == {<<contravariant_multiindices[x], covariant_multiindices[y]>> :
                    x \in DOMAIN contravariant_multiindices,
                    y \in DOMAIN covariant_multiindices}
    IN  [key \in keys |-> IF key \in DOMAIN d THEN d[key] ELSE 0]

\* __eq__(self, other), reading their dicts.
Tensor_eq(self, d, other, e) ==
    IF self.basis = other.basis
    THEN IF self.type = other.type
         THEN Tensor_get_all_values(self, d) = Tensor_get_all_values(other, e)
         ELSE FALSE
    ELSE FALSE

\* The check of __add__ on the operands' basis and type.
Tensor_add_check(self, other) ==
    IF other.basis # self.basis \/ other.type # self.type
    THEN MismatchError ELSE NoExc

\* The loop of __add__ with the sum dropped: other's value replaces the one held.
Tensor_add_merge_overwrite(result_dict, e) ==
    [key \in DOMAIN result_dict \cup DOMAIN e |->
        IF key \in DOMAIN e THEN e[key] ELSE result_dict[key]]

\* The loop of __add__ over the keys of other's dict e, started from
\* result_dict (a key is summed when present, set when not).
Tensor_add_merge(result_dict, e) ==
    [key \in DOMAIN result_dict \cup DOMAIN e |->
        IF key \in DOMAIN e
        THEN IF key \in DOMAIN result_dict
             THEN result_dict[key] + e[key]
             ELSE e[key]
        ELSE result_dict[key]]

\* result_dict of __add__ without the copy: the loop updates self's own dict.
Tensor_add_result_dict_in_place(heap, self, other) ==
    LET merged == Tensor_add_merge(heap[self.dict_of_values],
                                   heap[other.dict_of_values])
    IN  [heap |-> [heap EXCEPT ![self.dict_of_values] = merged],
         ref |-> self.dict_of_values]

\* result_dict of __add__: a copy of self's dict, a new object on the heap,
\* then updated by the loop.  Gives the heap and the address of result_dict.
Tensor_add_result_dict(heap, self, other) ==
    LET merged == Tensor_add_merge(heap[self.dict_of_values],
                                   heap[other.dict_of_values])
    IN  [heap |-> Append(heap, merged), ref |-> Len(heap) + 1]

\* The dict of tensor_from_matrix with the two indices exchanged.
tensor_from_matrix_dict_transposed(matrix) ==
    [key \in {<<Tup(<<i, j>>), None>> :
                i \in 0..(Len(matrix) - 1), j \in 0..(Len(matrix) - 1)} |->
        matrix[key[1].items[2] + 1][key[1].items[1] + 1]]

(***************************************************************************)
(* tensor_from_matrix(matrix, basis): the dict it fills.  matrix is a      *)
(* sequence of rows; matrix[i, j] of the code is matrix[i + 1][j + 1].     *)
(***************************************************************************)
tensor_from_matrix_dict(matrix) ==
    [key \in {<<Tup(<<i, j>>), None>> :
                i \in 0..(Len(matrix) - 1), j \in 0..(Len(matrix) - 1)} |->
        matrix[key[1].items[1] + 1][key[1].items[2] + 1]]

(***************************************************************************)
(* contract_indices(tensor, i, j).                                         *)
(***************************************************************************)
\* The three guards at the head of contract_indices.
contract_check(tensor, i, j) ==
    LET covariant_dim == tensor.covariant_dim
        contravariant_dim == tensor.contravariant_dim
    IN  IF covariant_dim < 1 \/ contravariant_dim < 1 THEN RankError
        ELSE IF i < 0 \/ i >= contravariant_dim THEN ContravariantSlotError
        ELSE IF j < 0 \/ j >= covariant_dim THEN CovariantSlotError
        ELSE NoExc

\* m[:k] + (r, ) + m[k:] for a tuple m.
contract_extend(m, k, r) ==
    Tup(SliceTo(m.items, k) \o <<r>> \o SliceFrom(m.items, k))

\* One pass of the loop over r: a[:i] raises TypeError when a is None, then
\* b[:j] when b is None, then the component is read with tensor[...].
contract_term(tensor, d, a, b, i, j, r) ==
    IF a.tag # "tuple" THEN Raise(TypeError)
    ELSE IF b.tag # "tuple" THEN Raise(TypeError)
    ELSE Tensor_getitem(tensor, d, contract_extend(a, i, r),
                        contract_extend(b, j, r))

\* sumand after the passes r = 0 .. upto - 1, or the first exception.
RECURSIVE contract_sumand(_, _, _, _, _, _, _)
contract_sumand(tensor, d, a, b, i, j, upto) ==
    IF upto = 0 THEN Return(0)
    ELSE LET before == contract_sumand(tensor, d, a, b, i, j, upto - 1)
             term == contract_term(tensor, d, a, b, i, j, upto - 1)
         IN  IF before.exc # NoExc THEN before
             ELSE IF term.exc # NoExc THEN term
             ELSE Return(before.val + term.val)

\* new_tensor_dict after the loops over a and b, or the first exception in
\* iteration order (a outer, b inner).
contract_new_tensor_dict(tensor, d, i, j) ==
    LET dim == Len(tensor.basis)
        covariant_indices == get_all_multiindices(tensor.covariant_dim - 1, dim)
        contravariant_indices ==
            get_all_multiindices(tensor.contravariant_dim - 1, dim)
        cell(x, y) == contract_sumand(tensor, d, contravariant_indices[x],
                                      covariant_indices[y], i, j, dim)
        cells == (DOMAIN contravariant_indices) \X (DOMAIN covariant_indices)
        failed == {c \in cells : cell(c[1], c[2]).exc # NoExc}
        first == CHOOSE c \in failed : \A o \in failed :
                    c[1] < o[1] \/ (c[1] = o[1] /\ c[2] <= o[2])
    IN  IF failed # {}
        THEN [exc |-> cell(first[1], first[2]).exc, val |-> <<>>]
        ELSE [exc |-> NoExc,
              val |-> [key \in {<<contravariant_indices[c[1]],
                                  covariant_indices[c[2]]>> : c \in cells} |->
                         contract_sumand(tensor, d, key[1], key[2], i, j, dim).val]]

\* The _type of the tensor contract_indices builds.
contract_type(tensor) ==
    <<tensor.contravariant_dim - 1, tensor.covariant_dim - 1>>

(***************************************************************************)
(* The inputs the calls are made with.                                     *)
(***************************************************************************)
Coordinates == <<"t", "x", "y", "z">>

Bases == {SubSeq(Coordinates, 1, n) : n \in 1..MaxDim}

Types == (0..MaxRank) \X (0..MaxRank)

Scalars == {0, 3, 5}

IndexValues == 0..MaxDim

TuplesOver(S) == UNION {[1..k -> S] : k \in 0..MaxRank}

\* None and the tuples of at most MaxRank entries.
MultiindexArgs == {None} \cup {Tup(s) : s \in TuplesOver(IndexValues)}

IntArgs == {PyInt(v) : v \in IndexValues}

\* The dict literals with at most MaxEntries entries, keys drawn from K.
RECURSIVE SubsetsUpTo(_, _)
SubsetsUpTo(K, size) ==
    IF size = 0 THEN {{}}
    ELSE LET smaller == SubsetsUpTo(K, size - 1)
         IN  smaller \cup {D \cup {key} : D \in smaller, key \in K}

DictLiterals(K) == UNION {[D -> Scalars] : D \in SubsetsUpTo(K, MaxEntries)}

\* The square matrices of size n.
Matrices(n) == [1..n -> [1..n -> Scalars]]

(***************************************************************************)
(* The state machine.                                                      *)
(***************************************************************************)
NoCall ==
    [op |-> "none", self |-> 0, other |-> 0, a |-> None, b |-> None,
     i |-> 0, j |-> 0, basis |-> <<>>, type |-> <<0, 0>>, arg |-> <<>>,
     exc |-> NoExc, val |-> 0, new |-> 0, flag |-> FALSE, dense |-> <<>>]

Init ==
    /\ dicts = <<>>
    /\ tensors = <<>>
    /\ last = NoCall

\* Tensor(basis, _type, d) called with a fresh dict d.
Construct(basis, _type, d) ==
    LET exc == Tensor_init_check(basis, _type, d)
        call == [NoCall EXCEPT !.op = "Construct", !.basis = basis,
                               !.type = _type, !.arg = d, !.exc = exc]
    IN  IF exc # NoExc
        THEN /\ last' = call
             /\ UNCHANGED <<dicts, tensors>>
        ELSE /\ Len(tensors) < MaxTensors
             /\ dicts' = Append(dicts, d)
             /\ tensors' = Append(tensors,
                                  Tensor_fields(basis, _type, Len(dicts) + 1))
             /\ last' = [call EXCEPT !.new = Len(tensors) + 1]

\* tensor_from_matrix(matrix, basis).
FromMatrix(matrix, basis) ==
    LET dict_of_values == tensor_from_matrix_dict(matrix)
        exc == Tensor_init_check(basis, <<0, 2>>, dict_of_values)
        call == [NoCall EXCEPT !.op = "FromMatrix", !.basis = basis,
                               !.arg = matrix, !.exc = exc]
    IN  IF exc # NoExc
        THEN /\ last' = call
             /\ UNCHANGED <<dicts, tensors>>
        ELSE /\ Len(tensors) < MaxTensors
             /\ dicts' = Append(dicts, dict_of_values)
             /\ tensors' = Append(tensors,
                                  Tensor_fields(basis, <<0, 2>>, Len(dicts) + 1))
             /\ last' = [call EXCEPT !.new = Len(tensors) + 1]

\* tensors[t][a, b].
Get(t, a, b) ==
    LET r == Tensor_getitem(tensors[t], dicts[tensors[t].dict_of_values], a, b)
    IN  /\ last' = [NoCall EXCEPT !.op = "Get", !.self = t, !.a = a, !.b = b,
                                  !.exc = r.exc, !.val = r.val]
        /\ UNCHANGED <<dicts, tensors>>

\* tensors[s] == tensors[o].
Equals(s, o) ==
    /\ last' = [NoCall EXCEPT !.op = "Equals", !.self = s, !.other = o,
                              !.flag = Tensor_eq(tensors[s],
                                                 dicts[tensors[s].dict_of_values],
                                                 tensors[o],
                                                 dicts[tensors[o].dict_of_values])]
    /\ UNCHANGED <<dicts, tensors>>

\* tensors[t].get_all_values().
Densify(t) ==
    /\ last' = [NoCall EXCEPT !.op = "Densify", !.self = t,
                              !.dense = Tensor_get_all_values(
                                  tensors[t], dicts[tensors[t].dict_of_values])]
    /\ UNCHANGED <<dicts, tensors>>

\* tensors[s] + tensors[o].
Add(s, o) ==
    LET self == tensors[s]
        other == tensors[o]
        exc == Tensor_add_check(self, other)
        call == [NoCall EXCEPT !.op = "Add", !.self = s, !.other = o]
        result == Tensor_add_result_dict(dicts, self, other)
        init == Tensor_init_check(self.basis, self.type, result.heap[result.ref])
    IN  IF exc # NoExc
        THEN /\ last' = [call EXCEPT !.exc = exc]
             /\ UNCHANGED <<dicts, tensors>>
        ELSE /\ Len(tensors) < MaxTensors
             /\ dicts' = result.heap
             /\ IF init # NoExc
                THEN /\ last' = [call EXCEPT !.exc = init]
                     /\ UNCHANGED tensors
                ELSE /\ tensors' = Append(tensors,
                            Tensor_fields(self.basis, self.type, result.ref))
                     /\ last' = [call EXCEPT !.new = Len(tensors) + 1]

\* contract_indices(tensors[t], i, j).
Contract(t, i, j) ==
    LET tensor == tensors[t]
        exc == contract_check(tensor, i, j)
        call == [NoCall EXCEPT !.op = "Contract", !.self = t, !.i = i, !.j = j]
        new_tensor_dict ==
            contract_new_tensor_dict(tensor, dicts[tensor.dict_of_values], i, j)
        init == Tensor_init_check(tensor.basis, contract_type(tensor),
                                  new_tensor_dict.val)
    IN  IF exc # NoExc
        THEN /\ last' = [call EXCEPT !.exc = exc]
             /\ UNCHANGED <<dicts, tensors>>
        ELSE IF new_tensor_dict.exc # NoExc
        THEN /\ last' = [call EXCEPT !.exc = new_tensor_dict.exc]
             /\ UNCHANGED <<dicts, tensors>>
        ELSE IF init # NoExc
        THEN /\ last' = [call EXCEPT !.exc = init]
             /\ UNCHANGED <<dicts, tensors>>
        ELSE /\ Len(tensors) < MaxTensors
             /\ dicts' = Append(dicts, new_tensor_dict.val)
             /\ tensors' = Append(tensors,
                    Tensor_fields(tensor.basis, contract_type(tensor),
                                  Len(dicts) + 1))
             /\ last' = [call EXCEPT !.new = Len(tensors) + 1]

Stored == 1..Len(tensors)

\* The last call built a tensor.
Built == last.op \in {"Construct", "FromMatrix"} /\ last.exc = NoExc

(***************************************************************************)
(* Spec: a session.  Tensors are built from a few sample arguments and any *)
(* sequence of calls is made on the tensors held, results included.        *)
(***************************************************************************)
Samples ==
    {[basis |-> <<"t", "x">>, type |-> <<1, 1>>,
      d |-> (<<Tup(<<0>>), Tup(<<0>>)>> :> 3) @@ (<<Tup(<<1>>), Tup(<<1>>)>> :> 5)],
     [basis |-> <<"t", "x">>, type |-> <<1, 1>>,
      d |-> (<<Tup(<<0>>), Tup(<<0>>)>> :> 0)],
     [basis |-> <<"t", "x">>, type |-> <<2, 2>>,
      d |-> (<<Tup(<<0, 1>>), Tup(<<0, 0>>)>> :> 5)]}

SampleArgs == {PyInt(0), Tup(<<0, 1>>)}

SampleSlots == {<<0, 0>>, <<1, 0>>}

Next ==
    \/ \E c \in Samples : Construct(c.basis, c.type, c.d)
    \/ \E t \in Stored : \E a, b \in SampleArgs : Get(t, a, b)
    \/ \E s, o \in Stored : Equals(s, o)
    \/ \E t \in Stored : Densify(t)
    \/ \E s, o \in Stored : Add(s, o)
    \/ \E t \in Stored : \E slots \in SampleSlots :
            Contract(t, slots[1], slots[2])

Spec == Init /\ [][Next]_vars

(***************************************************************************)
(* SpecCall: one tensor is built from any arguments of the bounded sets,   *)
(* then one call is made on it.                                            *)
(***************************************************************************)
SlotArgs == (-1)..MaxRank

KeyArgs == MultiindexArgs \X MultiindexArgs

NextCall ==
    \/ /\ last.op = "none"
       /\ \E basis \in Bases, _type \in Types : \E d \in DictLiterals(KeyArgs) :
            Construct(basis, _type, d)
    \/ /\ last.op = "none"
       /\ \E basis \in Bases : \E n \in 1..MaxDim : \E matrix \in Matrices(n) :
            FromMatrix(matrix, basis)
    \/ /\ Built
       /\ \E a, b \in MultiindexArgs \cup IntArgs : Get(1, a, b)
    \/ /\ Built
       /\ Densify(1)
    \/ /\ Built
       /\ \E i, j \in SlotArgs : Contract(1, i, j)

SpecCall == Init /\ [][NextCall]_vars

(***************************************************************************)
(* SpecMatrix: one tensor is built from a matrix, then its components are  *)
(* read, the two indices given as two integers or as one multi-index.      *)
(***************************************************************************)
NextMatrix ==
    \/ /\ last.op = "none"
       /\ \E basis \in Bases : \E n \in 1..MaxDim : \E matrix \in Matrices(n) :
            FromMatrix(matrix, basis)
    \/ /\ Built
       /\ \E i, j \in 0..(MaxDim - 1) :
            \/ Get(1, PyInt(i), PyInt(j))
            \/ Get(1, Tup(<<i, j>>), None)

SpecMatrix == Init /\ [][NextMatrix]_vars

(***************************************************************************)
(* SpecPair: two tensors that Tensor(...) accepts are held, and one call   *)
(* is made on them.                                                        *)
(***************************************************************************)
Accepted ==
    {c \in [basis : Bases, type : Types, d : DictLiterals(KeyArgs)] :
        Tensor_init_check(c.basis, c.type, c.d) = NoExc}

InitPair ==
    /\ \E x, y \in Accepted :
        /\ dicts = <<x.d, y.d>>
        /\ tensors = <<Tensor_fields(x.basis, x.type, 1),
                       Tensor_fields(y.basis, y.type, 2)>>
    /\ last = NoCall

NextPair ==
    \/ /\ last.op = "none"
       /\ \E s, o \in Stored : Equals(s, o)
    \/ /\ last.op = "none"
       /\ \E s, o \in Stored : Add(s, o)

SpecPair == InitPair /\ [][NextPair]_vars

(***************************************************************************)
(* Vocabulary of the properties.                                           *)
(***************************************************************************)
\* The multi-indices of length p over a basis of size n: the empty marker
\* alone when p = 0.
Indices(p, n) ==
    IF p = 0 THEN {None} ELSE {Tup(s) : s \in [1..p -> 0..(n - 1)]}

\* The component of the map d at (a, b), an absent entry read as zero.
ValueAt(d, a, b) == IF <<a, b>> \in DOMAIN d THEN d[<<a, b>>] ELSE 0

\* The multi-index m (the empty marker counts as no entries) with the value r
\* inserted at position k, counted from 0.
InsertAt(m, k, r) ==
    Tup([x \in 1..(Len(m.items) + 1) |->
            IF x <= k THEN m.items[x]
            ELSE IF x = k + 1 THEN r ELSE m.items[x - 1]])

\* An integer argument as the singleton tuple it stands for.
Normalized(v) == IF v.tag = "int" THEN Tup(v.items) ELSE v

RECURSIVE SumBelow(_, _)
\* f[0] + ... + f[n - 1].
SumBelow(f, n) == IF n = 0 THEN 0 ELSE SumBelow(f, n - 1) + f[n - 1]

DictOf(t) == dicts[tensors[t].dict_of_values]

DimOf(t) == Len(tensors[t].basis)

\* The pairs Densify covers for the stored tensor t.
PairsOf(t) ==
    Indices(tensors[t].contravariant_dim, DimOf(t))
        \X Indices(tensors[t].covariant_dim, DimOf(t))

RangeErrors == {RankError, ContravariantSlotError, CovariantSlotError}

\* The last call was Contract on a tensor of declared type (p, q) with
\* p, q >= 1 and slots 0 <= i < p, 0 <= j < q.
ContractInRange ==
    /\ last.op = "Contract"
    /\ tensors[last.self].type[1] >= 1
    /\ tensors[last.self].type[2] >= 1
    /\ last.i >= 0 /\ last.i < tensors[last.self].type[1]
    /\ last.j >= 0 /\ last.j < tensors[last.self].type[2]

(***************************************************************************)
(* C1.  Contract(T, i, j) on a tensor of type (p, q), p, q >= 1, with      *)
(* in-range slots returns a tensor whose map assigns every pair (a', b')   *)
(* of a length-(p-1) and a length-(q-1) multi-index the sum over r of      *)
(* T[insert(a', i, r), insert(b', j, r)], zero sums included.              *)
(***************************************************************************)
C1_ContractSums ==
    ContractInRange =>
        /\ last.exc = NoExc
        /\ last.new \in Stored
        /\ LET T == tensors[last.self]
               n == DimOf(last.self)
               R == DictOf(last.new)
           IN  /\ DOMAIN R = Indices(T.type[1] - 1, n) \X Indices(T.type[2] - 1, n)
               /\ \A key \in DOMAIN R :
                    R[key] = SumBelow(
                        [r \in 0..(n - 1) |->
                            ValueAt(DictOf(last.self),
                                    InsertAt(key[1], last.i, r),
                                    InsertAt(key[2], last.j, r))], n)

(***************************************************************************)
(* C2.  Contract(T, i, j) on a tensor of type (p, q), p, q >= 1, with      *)
(* in-range slots completes without error and returns a tensor of type     *)
(* exactly (p - 1, q - 1).                                                 *)
(***************************************************************************)
C2_ContractReducesRank ==
    ContractInRange =>
        /\ last.exc = NoExc
        /\ last.new \in Stored
        /\ tensors[last.new].type = <<tensors[last.self].type[1] - 1,
                                      tensors[last.self].type[2] - 1>>

(***************************************************************************)
(* C3.  Tensor(basis, (p, q), map) raises the validation error exactly     *)
(* when some key (a, b) fails is_multiindex(a, dim, p) or                  *)
(* is_multiindex(b, dim, q); otherwise it stores basis, type and map       *)
(* unchanged.                                                              *)
(***************************************************************************)
C3_ConstructValidates ==
    last.op = "Construct" =>
        LET n == Len(last.basis)
            invalid == \E key \in DOMAIN last.arg :
                          \/ ~is_multiindex(key[1], n, last.type[1])
                          \/ ~is_multiindex(key[2], n, last.type[2])
        IN  IF invalid
            THEN last.exc = ValidationError /\ last.new = 0
            ELSE /\ last.exc = NoExc
                 /\ last.new \in Stored
                 /\ tensors[last.new].basis = last.basis
                 /\ tensors[last.new].type = last.type
                 /\ DictOf(last.new) = last.arg

(***************************************************************************)
(* C4.  Get(a, b), integers read as singleton tuples, raises the lookup    *)
(* error exactly when the normalized pair is not a valid multi-index pair  *)
(* for the tensor (wrong length or an entry outside [0, dim)); otherwise   *)
(* it returns the stored scalar, or zero when there is no stored entry.    *)
(***************************************************************************)
C4_GetValidates ==
    last.op = "Get" =>
        LET T == tensors[last.self]
            a == Normalized(last.a)
            b == Normalized(last.b)
            valid == /\ is_multiindex(a, DimOf(last.self), T.contravariant_dim)
                     /\ is_multiindex(b, DimOf(last.self), T.covariant_dim)
        IN  IF valid
            THEN last.exc = NoExc /\ last.val = ValueAt(DictOf(last.self), a, b)
            ELSE last.exc = KeyError

(***************************************************************************)
(* C5.  Contract(T, i, j) on a tensor of type (p, q) fails with a range    *)
(* error and returns no tensor when p < 1 or q < 1, when i is outside      *)
(* [0, p), and when j is outside [0, q).                                   *)
(***************************************************************************)
C5_ContractRangeErrors ==
    last.op = "Contract" =>
        LET p == tensors[last.self].type[1]
            q == tensors[last.self].type[2]
        IN  (\/ p < 1 \/ q < 1
             \/ last.i < 0 \/ last.i >= p
             \/ last.j < 0 \/ last.j >= q)
                => last.exc \in RangeErrors /\ last.new = 0

\* The last call was FromMatrix on a square matrix of the basis's size.
FromSquareMatrix == last.op = "FromMatrix" /\ Len(last.arg) = Len(last.basis)

C7_EqualsIsDenseEquality ==
    last.op = "Equals" =>
        LET A == tensors[last.self]
            B == tensors[last.other]
        IN  /\ last.flag =
                (/\ A.basis = B.basis
                 /\ A.type = B.type
                 /\ \A k \in PairsOf(last.self) :
                        ValueAt(DictOf(last.self), k[1], k[2])
                            = ValueAt(DictOf(last.other), k[1], k[2]))
            /\ last.flag = Tensor_eq(B, DictOf(last.other), A, DictOf(last.self))
            /\ Tensor_eq(A, DictOf(last.self), A, DictOf(last.self))

\* Equals has answered true for two tensors of which one holds an explicit
\* zero at a pair that the other omits.
C7_Witness ==
    /\ last.op = "Equals"
    /\ last.flag
    /\ \E k \in PairsOf(last.self) :
            /\ k \in DOMAIN DictOf(last.self)
            /\ k \notin DOMAIN DictOf(last.other)

(***************************************************************************)
(* C8.  For A and B of the same basis and type, A.Add(B) returns a tensor  *)
(* of that basis and type whose value at every multi-index pair is the sum *)
(* of the operands' values there, an absent entry read as zero, and a key  *)
(* held by one operand only keeps that operand's value; when the bases or  *)
(* the types differ, Add raises the mismatch error.                        *)
(***************************************************************************)
C8_AddIsPointwiseSum ==
    last.op = "Add" =>
        LET A == tensors[last.self]
            B == tensors[last.other]
            dA == DictOf(last.self)
            dB == DictOf(last.other)
        IN  IF A.basis = B.basis /\ A.type = B.type
            THEN /\ last.exc = NoExc
                 /\ last.new \in Stored
                 /\ tensors[last.new].basis = A.basis
                 /\ tensors[last.new].type = A.type
                 /\ \A k \in PairsOf(last.self) :
                        ValueAt(DictOf(last.new), k[1], k[2])
                            = ValueAt(dA, k[1], k[2]) + ValueAt(dB, k[1], k[2])
                 /\ \A k \in (DOMAIN dA) \ (DOMAIN dB) :
                        ValueAt(DictOf(last.new), k[1], k[2]) = dA[k]
                 /\ \A k \in (DOMAIN dB) \ (DOMAIN dA) :
                        ValueAt(DictOf(last.new), k[1], k[2]) = dB[k]
            ELSE last.exc = MismatchError /\ last.new = 0

\* Add has returned the sum of two tensors that hold a non-zero value at the
\* same key.
C8_Witness ==
    /\ last.op = "Add"
    /\ last.exc = NoExc
    /\ last.self # last.other
    /\ \E k \in DOMAIN DictOf(last.self) \cap DOMAIN DictOf(last.other) :
            DictOf(last.self)[k] # 0 /\ DictOf(last.other)[k] # 0

(***************************************************************************)
(* C9.  Every tensor that exists has only keys (a, b) with a a valid       *)
(* contravariant multi-index of length p and b a valid covariant           *)
(* multi-index of length q for its declared type (p, q) and basis          *)
(* dimension (so the empty marker only where the rank is 0).               *)
(***************************************************************************)
C9_KeysMatchDeclaredType ==
    \A t \in Stored : \A key \in DOMAIN DictOf(t) :
        /\ is_multiindex(key[1], DimOf(t), tensors[t].type[1])
        /\ is_multiindex(key[2], DimOf(t), tensors[t].type[2])

(***************************************************************************)
(* C10.  No call mutates its inputs: across every step each tensor held    *)
(* keeps its basis, its type and its component map, and a tensor that Add  *)
(* or Contract returns is a new one whose map no earlier tensor shares.    *)
(***************************************************************************)
C10_NoMutation ==
    [][/\ Len(tensors') >= Len(tensors)
       /\ \A t \in Stored :
            /\ tensors'[t] = tensors[t]
            /\ dicts'[tensors[t].dict_of_values] = dicts[tensors[t].dict_of_values]
       /\ \A n \in 1..Len(tensors') :
            n \notin Stored =>
                \A t \in Stored :
                    tensors'[n].dict_of_values # tensors[t].dict_of_values]_vars

\* Add has returned the sum of two different tensors, each holding a
\* non-zero entry.
C10_Witness ==
    /\ last.op = "Add"
    /\ last.exc = NoExc
    /\ last.self # last.other
    /\ \E k \in DOMAIN DictOf(last.other) : DictOf(last.other)[k] # 0
    /\ \E k \in DOMAIN DictOf(last.self) : DictOf(last.self)[k] # 0

====
